---- MODULE Spec2Model ----
(***************************************************************************)
(* Model of src/work.ts: TaskImpl (play, cancel, with, fireCancel,         *)
(* removeCancelListener) and Scheduler (task, progress, cancel,            *)
(* throwIfBusy) for one lane.                                              *)
(*                                                                         *)
(* Tasks are numbered 1..MaxTasks in the order Scheduler.task creates      *)
(* them; 0 stands for null.  A task body is external code: it is modelled  *)
(* as a process that may call with(op) and await it, call checkCanceled,   *)
(* return, or throw.  play() is an async function: the part up to the      *)
(* await runs inside progress(), the part after the await runs when the    *)
(* body ends, and the .then(()=>this.progress()) callback runs later as a  *)
(* step of its own.                                                        *)
(***************************************************************************)
EXTENDS Integers, Sequences, FiniteSets

\* Number of tasks submitted to the lane in one run of Spec.
MaxTasks == 4

\* Number of tasks submitted to the lane in one run of SpecWith, where the
\* bodies also use with().
MaxWithTasks == 2

\* Number of tasks submitted to the lane in one run of SpecLive.
MaxLiveTasks == 3

\* Number of tasks submitted to the lane in one run of SpecListeners.
MaxListenerTasks == 1

\* Number of OnCancel handles the bodies obtain from oncancel in one run of
\* SpecListeners.
MaxHandles == 2

MaxId == IF MaxTasks > MaxWithTasks THEN MaxTasks ELSE MaxWithTasks

Tasks == 1..MaxId

Handles == 1..MaxHandles

\* The functions that bodies pass to oncancel.
Callbacks == {"cb1", "cb2"}

\* What such a function does when it is called: nothing, throw, or call
\* dispose() on the handle h.
Behaviours ==
    {[kind |-> "nothing", h |-> 0], [kind |-> "throw", h |-> 0]}
        \cup {[kind |-> "dispose", h |-> h] : h \in Handles}

VARIABLES
    ntasks,          \* number of TaskImpl objects constructed so far
    state,           \* TaskImpl.state
    cancelled,       \* TaskImpl.cancelled
    next,            \* TaskImpl.next (0 = null)
    resolved,        \* TaskImpl.promise has been resolved (this.resolve() called)
    cancelListeners, \* TaskImpl.cancelListeners
    wrapped,         \* outcome of the latest promise returned by TaskImpl.with
    opSt,            \* the promise passed to the latest accepted with(): none/pending/settled
    bodyPc,          \* position of the task body: none/run/wait/returned/threw
    bodyErr,         \* the value the body threw
    playSt,          \* the promise returned by play(): none/running/resolved
    progressed,      \* the .then(()=>this.progress()) callback of play() has run
    alreadyStarted,  \* play() raised 'play must call once'
    currentTask,     \* Scheduler.currentTask
    nextTask,        \* Scheduler.nextTask
    lastTask,        \* Scheduler.lastTask
    errors,          \* number of util.error reports per task
    messages,        \* util.message output of the latest Scheduler.cancel call (task ids)
    busy,            \* outcome of a throwIfBusy call made in the previous step
    startOrder,      \* history: tasks in the order their bodies were invoked
    discarded,       \* history: tasks that were pending when Scheduler.cancel cleared the chain
    nhandles,        \* number of OnCancel objects returned to bodies so far
    htask,           \* OnCancel.task (0 = handle not created)
    htarget,         \* OnCancel.target
    hcb,             \* history: the function passed to the oncancel call that made the handle
    disposed,        \* history: dispose() was called on the handle
    cbDoes,          \* the code of each function passed to oncancel
    fired,           \* history: per task, the oncancel functions that were invoked, in order
    cancelThrew      \* the latest Scheduler.cancel call ended with an exception

taskVars  == <<state, cancelled, next, resolved, cancelListeners, wrapped, opSt,
               bodyPc, bodyErr, playSt, progressed, alreadyStarted>>
schedVars == <<ntasks, currentTask, nextTask, lastTask>>
obsVars   == <<errors, messages, busy, startOrder, discarded>>
lstVars   == <<nhandles, htask, htarget, hcb, disposed, cbDoes, fired, cancelThrew>>
vars      == <<taskVars, schedVars, obsVars, lstVars>>

WithOutcomes == {"none", "pending", "resolved", "rej_Error", "rej_CANCELLED",
                 "rej_undefined", "rej_InvalidState"}
Thrown == {"none", "Error", "CANCELLED", "undefined", "InvalidState"}

TypeOK ==
    /\ ntasks \in 0..MaxId
    /\ state \in [Tasks -> {"WAIT", "STARTED", "DONE"}]
    /\ cancelled \in [Tasks -> BOOLEAN]
    /\ next \in [Tasks -> 0..MaxId]
    /\ resolved \in [Tasks -> BOOLEAN]
    /\ \A t \in Tasks : cancelListeners[t] \in Seq({"reject"} \cup Callbacks)
    /\ wrapped \in [Tasks -> WithOutcomes]
    /\ opSt \in [Tasks -> {"none", "pending", "settled"}]
    /\ bodyPc \in [Tasks -> {"none", "run", "wait", "returned", "threw"}]
    /\ bodyErr \in [Tasks -> Thrown]
    /\ playSt \in [Tasks -> {"none", "running", "resolved"}]
    /\ progressed \in [Tasks -> BOOLEAN]
    /\ alreadyStarted \in BOOLEAN
    /\ currentTask \in 0..MaxId
    /\ nextTask \in 0..MaxId
    /\ lastTask \in 0..MaxId
    /\ errors \in [Tasks -> Nat]
    /\ messages \in Seq(Tasks)
    /\ busy \in {"none", "ok", "Busy"}
    /\ startOrder \in Seq(Tasks)
    /\ discarded \subseteq Tasks
    /\ nhandles \in 0..MaxHandles
    /\ htask \in [Handles -> 0..MaxId]
    /\ htarget \in [Handles -> Callbacks \cup {"undefined"}]
    /\ hcb \in [Handles -> Callbacks \cup {"undefined"}]
    /\ disposed \in [Handles -> BOOLEAN]
    /\ cbDoes \in [Callbacks -> Behaviours]
    /\ \A t \in Tasks : fired[t] \in Seq(Callbacks)
    /\ cancelThrew \in BOOLEAN

\* Field initialisers of TaskImpl and Scheduler; no OnCancel object exists.
InitFields ==
    /\ ntasks = 0
    /\ state = [t \in Tasks |-> "WAIT"]
    /\ cancelled = [t \in Tasks |-> FALSE]
    /\ next = [t \in Tasks |-> 0]
    /\ resolved = [t \in Tasks |-> FALSE]
    /\ cancelListeners = [t \in Tasks |-> <<>>]
    /\ wrapped = [t \in Tasks |-> "none"]
    /\ opSt = [t \in Tasks |-> "none"]
    /\ bodyPc = [t \in Tasks |-> "none"]
    /\ bodyErr = [t \in Tasks |-> "none"]
    /\ playSt = [t \in Tasks |-> "none"]
    /\ progressed = [t \in Tasks |-> FALSE]
    /\ alreadyStarted = FALSE
    /\ currentTask = 0
    /\ nextTask = 0
    /\ lastTask = 0
    /\ errors = [t \in Tasks |-> 0]
    /\ messages = <<>>
    /\ busy = "none"
    /\ startOrder = <<>>
    /\ discarded = {}
    /\ nhandles = 0
    /\ htask = [h \in Handles |-> 0]
    /\ htarget = [h \in Handles |-> "undefined"]
    /\ hcb = [h \in Handles |-> "undefined"]
    /\ disposed = [h \in Handles |-> FALSE]
    /\ fired = [t \in Tasks |-> <<>>]
    /\ cancelThrew = FALSE

Init ==
    /\ InitFields
    /\ cbDoes = [cb \in Callbacks |-> [kind |-> "nothing", h |-> 0]]

\* The start of a run whose bodies pass functions with any of the
\* behaviours to oncancel.
InitListeners ==
    /\ InitFields
    /\ cbDoes \in [Callbacks -> Behaviours]

----------------------------------------------------------------------------
\* TaskImpl

\* Array.prototype.lastIndexOf: 0 when absent (the code's -1).
RECURSIVE lastIndexFrom(_, _, _)
lastIndexFrom(ls, l, i) ==
    IF i = 0 THEN 0
    ELSE IF ls[i] = l THEN i
    ELSE lastIndexFrom(ls, l, i - 1)

lastIndexOf(ls, l) == lastIndexFrom(ls, l, Len(ls))

\* TaskImpl.removeCancelListener: splice out the last occurrence, if any.
removeCancelListener(ls, l) ==
    LET idx == lastIndexOf(ls, l)
    IN  IF idx = 0 THEN ls
        ELSE [i \in 1..(Len(ls) - 1) |-> IF i < idx THEN ls[i] ELSE ls[i + 1]]

\* The fields that listener calls read and write, as one value.
FireState ==
    [ls |-> cancelListeners, ht |-> htarget, dp |-> disposed, fd |-> fired,
     w |-> wrapped, threw |-> FALSE]

\* OnCancel.dispose without "this.target = undefined": a second dispose()
\* calls removeCancelListener again.
disposeKeepTarget(h, s) ==
    IF s.ht[h] = "undefined"
    THEN [s EXCEPT !.dp[h] = TRUE]
    ELSE [s EXCEPT !.ls[htask[h]] = removeCancelListener(@, s.ht[h]),
                   !.dp[h] = TRUE]

\* OnCancel.dispose on handle h.
dispose(h, s) ==
    IF s.ht[h] = "undefined"
    THEN [s EXCEPT !.dp[h] = TRUE]
    ELSE [s EXCEPT !.ls[htask[h]] = removeCancelListener(@, s.ht[h]),
                   !.ht[h] = "undefined",
                   !.dp[h] = TRUE]

\* One listener call, listener(), on task t.  A reject function registered
\* by with() is called with no argument, which rejects a still pending
\* wrapped promise with undefined.  A function passed to oncancel runs its
\* code; h.dispose() on a handle that was not yet returned throws.
invokeListener(t, l, s) ==
    LET s1 == [s EXCEPT !.fd[t] = Append(@, l)]
    IN  IF l = "reject"
        THEN [s EXCEPT !.w[t] = IF @ = "pending" THEN "rej_undefined" ELSE @]
        ELSE CASE cbDoes[l].kind = "nothing" -> s1
               [] cbDoes[l].kind = "throw" -> [s1 EXCEPT !.threw = TRUE]
               [] cbDoes[l].kind = "dispose" ->
                    IF htask[cbDoes[l].h] = 0
                    THEN [s1 EXCEPT !.threw = TRUE]
                    ELSE dispose(cbDoes[l].h, s1)

\* The for..of loop of TaskImpl.fireCancel from index i on: the array
\* iterator reads the live array, and an exception ends the loop.
RECURSIVE fireLoop(_, _, _)
fireLoop(t, i, s) ==
    IF i > Len(s.ls[t]) THEN s
    ELSE LET s2 == invokeListener(t, s.ls[t][i], s)
         IN  IF s2.threw THEN s2 ELSE fireLoop(t, i + 1, s2)

\* TaskImpl.fireCancel: the loop, then cancelListeners.length = 0 unless a
\* listener threw.
fireCancel(t, s) ==
    LET r == fireLoop(t, 1, s)
    IN  IF r.threw THEN r ELSE [r EXCEPT !.ls[t] = <<>>]

\* TaskImpl.cancel ends with an exception.
cancelThrows(t) == ~ cancelled[t] /\ fireCancel(t, FireState).threw

\* TaskImpl.cancel
cancel(t) ==
    IF cancelled[t]
    THEN UNCHANGED <<cancelled, cancelListeners, wrapped, htarget, disposed, fired>>
    ELSE LET r == fireCancel(t, FireState)
         IN  /\ cancelled' = [cancelled EXCEPT ![t] = TRUE]
             /\ wrapped' = r.w
             /\ cancelListeners' = r.ls
             /\ htarget' = r.ht
             /\ disposed' = r.dp
             /\ fired' = r.fd

\* TaskImpl.play up to the await: the guard, state = STARTED, the early
\* return for a cancelled task, and the call of the body.
play(t) ==
    IF state[t] # "WAIT"
    THEN /\ alreadyStarted' = TRUE
         /\ UNCHANGED <<state, playSt, bodyPc, startOrder>>
    ELSE /\ state' = [state EXCEPT ![t] = "STARTED"]
         /\ alreadyStarted' = alreadyStarted
         /\ IF cancelled[t]
            THEN /\ playSt' = [playSt EXCEPT ![t] = "resolved"]
                 /\ UNCHANGED <<bodyPc, startOrder>>
            ELSE /\ playSt' = [playSt EXCEPT ![t] = "running"]
                 /\ bodyPc' = [bodyPc EXCEPT ![t] = "run"]
                 /\ startOrder' = Append(startOrder, t)

\* playEnd with the catch block returning after util.error(e), as it does
\* for CANCELLED, so that this.resolve() is skipped for a failed body.
playEndNoResolve(t, e) ==
    /\ playSt' = [playSt EXCEPT ![t] = "resolved"]
    /\ IF e = "CANCELLED"
       THEN UNCHANGED <<errors, resolved>>
       ELSE IF e = "none"
       THEN /\ resolved' = [resolved EXCEPT ![t] = TRUE]
            /\ UNCHANGED errors
       ELSE /\ errors' = [errors EXCEPT ![t] = @ + 1]
            /\ UNCHANGED resolved

\* TaskImpl.play after the await: e is "none" when the body returned, else
\* the value it threw.
playEnd(t, e) ==
    /\ playSt' = [playSt EXCEPT ![t] = "resolved"]
    /\ IF e = "CANCELLED"
       THEN UNCHANGED <<errors, resolved>>
       ELSE /\ errors' = [errors EXCEPT ![t] = IF e = "none" THEN @ ELSE @ + 1]
            /\ resolved' = [resolved EXCEPT ![t] = TRUE]

\* TaskImpl.with: the outcome of the returned promise right after the call.
withResult(t) ==
    IF state[t] # "STARTED" THEN "rej_InvalidState"
    ELSE IF cancelled[t] THEN "rej_CANCELLED"
    ELSE "pending"

\* TaskImpl.with, with TaskImpl.oncancel(reject) for the accepted call.
with(t) ==
    LET r == withResult(t)
    IN  /\ wrapped' = [wrapped EXCEPT ![t] = r]
        /\ IF r = "pending"
           THEN /\ cancelListeners' = [cancelListeners EXCEPT ![t] = Append(@, "reject")]
                /\ opSt' = [opSt EXCEPT ![t] = "pending"]
           ELSE UNCHANGED <<cancelListeners, opSt>>

----------------------------------------------------------------------------
\* Scheduler

\* The tasks reached from h over TaskImpl.next, in order.
RECURSIVE Chain(_, _)
Chain(h, nx) == IF h = 0 THEN <<>> ELSE <<h>> \o Chain(nx[h], nx)

Range(s) == {s[i] : i \in 1..Len(s)}

\* Scheduler.progress without "this.nextTask = next" in its else branch: the
\* head stays at the front of the chain after it was made current.
progressNoPop(head, tail, nx) ==
    IF head = 0
    THEN /\ currentTask' = 0
         /\ nextTask' = head
         /\ lastTask' = tail
         /\ UNCHANGED <<state, playSt, bodyPc, startOrder, alreadyStarted>>
    ELSE /\ currentTask' = head
         /\ IF nx[head] = 0
            THEN nextTask' = 0 /\ lastTask' = 0
            ELSE nextTask' = head /\ lastTask' = tail
         /\ play(head)

\* Scheduler.progress, run on the chain (head, tail, nx).
progress(head, tail, nx) ==
    IF head = 0
    THEN /\ currentTask' = 0
         /\ nextTask' = head
         /\ lastTask' = tail
         /\ UNCHANGED <<state, playSt, bodyPc, startOrder, alreadyStarted>>
    ELSE /\ currentTask' = head
         /\ IF nx[head] = 0
            THEN nextTask' = 0 /\ lastTask' = 0
            ELSE nextTask' = nx[head] /\ lastTask' = tail
         /\ play(head)

\* Scheduler.task without the "if (!this.currentTask) this.progress()" at its
\* end: the task is appended and nothing starts it.
taskNoKick(limit) ==
    /\ ntasks < limit
    /\ LET new  == ntasks + 1
           last == lastTask
       IN  /\ ntasks' = new
           /\ next' = IF last # 0 THEN [next EXCEPT ![last] = new] ELSE next
           /\ nextTask' = IF last # 0 THEN nextTask ELSE new
           /\ lastTask' = new
    /\ busy' = "none"
    /\ UNCHANGED <<currentTask, state, playSt, bodyPc, startOrder, alreadyStarted,
                   cancelled, resolved, cancelListeners, wrapped, opSt, bodyErr,
                   progressed, errors, messages, discarded>>
    /\ UNCHANGED lstVars

\* Scheduler.task linking the new task in front of the pending chain
\* (task.next = this.nextTask; this.nextTask = task) instead of behind it.
taskPrepend(limit) ==
    /\ ntasks < limit
    /\ LET new  == ntasks + 1
           last == lastTask
           nx   == IF last # 0 THEN [next EXCEPT ![new] = nextTask] ELSE next
           tail == IF last # 0 THEN last ELSE new
       IN  /\ ntasks' = new
           /\ next' = nx
           /\ IF currentTask = 0
              THEN progress(new, tail, nx)
              ELSE /\ nextTask' = new
                   /\ lastTask' = tail
                   /\ UNCHANGED <<currentTask, state, playSt, bodyPc, startOrder,
                                  alreadyStarted>>
    /\ busy' = "none"
    /\ UNCHANGED <<cancelled, resolved, cancelListeners, wrapped, opSt, bodyErr,
                   progressed, errors, messages, discarded>>
    /\ UNCHANGED lstVars

\* Scheduler.task, for a lane that accepts limit submissions in a run.
task(limit) ==
    /\ ntasks < limit
    /\ LET new  == ntasks + 1
           last == lastTask
           nx   == IF last # 0 THEN [next EXCEPT ![last] = new] ELSE next
           head == IF last # 0 THEN nextTask ELSE new
       IN  /\ ntasks' = new
           /\ next' = nx
           /\ IF currentTask = 0
              THEN progress(head, new, nx)
              ELSE /\ nextTask' = head
                   /\ lastTask' = new
                   /\ UNCHANGED <<currentTask, state, playSt, bodyPc, startOrder,
                                  alreadyStarted>>
    /\ busy' = "none"
    /\ UNCHANGED <<cancelled, resolved, cancelListeners, wrapped, opSt, bodyErr,
                   progressed, errors, messages, discarded>>
    /\ UNCHANGED lstVars

\* The .then(()=>this.progress()) callback of task t's play().
Advance(t) ==
    /\ playSt[t] = "resolved"
    /\ ~progressed[t]
    /\ progressed' = [progressed EXCEPT ![t] = TRUE]
    /\ progress(nextTask, lastTask, next)
    /\ busy' = "none"
    /\ UNCHANGED <<ntasks, next, cancelled, resolved, cancelListeners, wrapped, opSt,
                   bodyErr, errors, messages, discarded>>
    /\ UNCHANGED lstVars

Submit == task(MaxTasks)

SubmitW == task(MaxWithTasks)

\* Scheduler.cancel that reports on util.message also when the lane is idle
\* (0 stands for a message that names no task).
schedulerCancelIdleMessage ==
    /\ busy' = "none"
    /\ IF currentTask = 0
       THEN /\ messages' = <<0>>
            /\ cancelThrew' = FALSE
            /\ UNCHANGED <<taskVars, schedVars, errors, startOrder, discarded,
                           nhandles, htask, htarget, hcb, disposed, cbDoes, fired>>
       ELSE LET cur == currentTask
            IN  /\ cancel(cur)
                /\ cancelThrew' = cancelThrows(cur)
                /\ IF cancelThrows(cur)
                   THEN /\ messages' = <<>>
                        /\ UNCHANGED <<currentTask, nextTask, lastTask, discarded>>
                   ELSE /\ messages' = <<cur>> \o Chain(next[cur], next)
                        /\ currentTask' = 0
                        /\ nextTask' = 0
                        /\ lastTask' = 0
                        /\ discarded' = discarded \cup Range(Chain(nextTask, next))
                /\ UNCHANGED <<ntasks, state, next, resolved, opSt, bodyPc, bodyErr,
                               playSt, progressed, alreadyStarted, errors, startOrder,
                               nhandles, htask, hcb, cbDoes>>

\* Scheduler.cancel without its last two statements (nextTask = null,
\* lastTask = null): the pending chain is reported but kept.
schedulerCancelKeepChain ==
    /\ busy' = "none"
    /\ IF currentTask = 0
       THEN /\ messages' = <<>>
            /\ cancelThrew' = FALSE
            /\ UNCHANGED <<taskVars, schedVars, errors, startOrder, discarded,
                           nhandles, htask, htarget, hcb, disposed, cbDoes, fired>>
       ELSE LET cur == currentTask
            IN  /\ cancel(cur)
                /\ cancelThrew' = cancelThrows(cur)
                /\ IF cancelThrows(cur)
                   THEN /\ messages' = <<>>
                        /\ UNCHANGED <<currentTask, nextTask, lastTask, discarded>>
                   ELSE /\ messages' = <<cur>> \o Chain(next[cur], next)
                        /\ currentTask' = 0
                        /\ UNCHANGED <<nextTask, lastTask>>
                        /\ discarded' = discarded \cup Range(Chain(nextTask, next))
                /\ UNCHANGED <<ntasks, state, next, resolved, opSt, bodyPc, bodyErr,
                               playSt, progressed, alreadyStarted, errors, startOrder,
                               nhandles, htask, hcb, cbDoes>>

\* Scheduler.cancel
schedulerCancel ==
    /\ busy' = "none"
    /\ IF currentTask = 0
       THEN /\ messages' = <<>>
            /\ cancelThrew' = FALSE
            /\ UNCHANGED <<taskVars, schedVars, errors, startOrder, discarded,
                           nhandles, htask, htarget, hcb, disposed, cbDoes, fired>>
       ELSE LET cur == currentTask
            IN  /\ cancel(cur)
                /\ cancelThrew' = cancelThrows(cur)
                /\ IF cancelThrows(cur)
                   THEN /\ messages' = <<>>
                        /\ UNCHANGED <<currentTask, nextTask, lastTask, discarded>>
                   ELSE /\ messages' = <<cur>> \o Chain(next[cur], next)
                        /\ currentTask' = 0
                        /\ nextTask' = 0
                        /\ lastTask' = 0
                        /\ discarded' = discarded \cup Range(Chain(nextTask, next))
                /\ UNCHANGED <<ntasks, state, next, resolved, opSt, bodyPc, bodyErr,
                               playSt, progressed, alreadyStarted, errors, startOrder,
                               nhandles, htask, hcb, cbDoes>>

\* Scheduler.throwIfBusy
throwIfBusy ==
    /\ busy' = IF currentTask = 0 THEN "ok" ELSE "Busy"
    /\ UNCHANGED <<taskVars, schedVars, errors, messages, startOrder, discarded>>
    /\ UNCHANGED lstVars

----------------------------------------------------------------------------
\* Task bodies and the promises they wait on

\* The body calls task.with(op) and awaits the result.
BodyWith(t) ==
    /\ bodyPc[t] = "run"
    /\ wrapped[t] # "pending"
    /\ with(t)
    /\ bodyPc' = [bodyPc EXCEPT ![t] = "wait"]
    /\ busy' = "none"
    /\ UNCHANGED <<state, cancelled, next, resolved, bodyErr, playSt, progressed,
                   alreadyStarted, schedVars, errors, messages, startOrder, discarded>>
    /\ UNCHANGED lstVars

\* task.with(op) called on a task whose body is not executing: before the
\* body was invoked, or by code the body left behind after it ended.
LateWith(t) ==
    /\ t <= ntasks
    /\ bodyPc[t] \in {"none", "returned", "threw"}
    /\ wrapped[t] # "pending"
    /\ with(t)
    /\ busy' = "none"
    /\ UNCHANGED <<state, cancelled, next, resolved, bodyPc, bodyErr, playSt, progressed,
                   alreadyStarted, schedVars, errors, messages, startOrder, discarded>>
    /\ UNCHANGED lstVars

\* OpSettle with handlers that settle the wrapped promise but leave the
\* reject listener registered (no removeCancelListener call).
OpSettleNoRemove(t, ok) ==
    /\ opSt[t] = "pending"
    /\ opSt' = [opSt EXCEPT ![t] = "settled"]
    /\ IF cancelled[t]
       THEN UNCHANGED <<cancelListeners, wrapped>>
       ELSE /\ UNCHANGED cancelListeners
            /\ wrapped' = [wrapped EXCEPT ![t] =
                  IF @ # "pending" THEN @ ELSE IF ok THEN "resolved" ELSE "rej_Error"]
    /\ busy' = "none"
    /\ UNCHANGED <<state, cancelled, next, resolved, bodyPc, bodyErr, playSt, progressed,
                   alreadyStarted, schedVars, errors, messages, startOrder, discarded>>
    /\ UNCHANGED lstVars

\* The promise passed to with() settles and the handlers registered by
\* with() run (waitWith.then when ok, waitWith.catch otherwise).
OpSettle(t, ok) ==
    /\ opSt[t] = "pending"
    /\ opSt' = [opSt EXCEPT ![t] = "settled"]
    /\ IF cancelled[t]
       THEN UNCHANGED <<cancelListeners, wrapped>>
       ELSE /\ cancelListeners' =
                  [cancelListeners EXCEPT ![t] = removeCancelListener(@, "reject")]
            /\ wrapped' = [wrapped EXCEPT ![t] =
                  IF @ # "pending" THEN @ ELSE IF ok THEN "resolved" ELSE "rej_Error"]
    /\ busy' = "none"
    /\ UNCHANGED <<state, cancelled, next, resolved, bodyPc, bodyErr, playSt, progressed,
                   alreadyStarted, schedVars, errors, messages, startOrder, discarded>>
    /\ UNCHANGED lstVars

\* The value a rejected wrapped promise throws into the awaiting body.
rejection(w) ==
    CASE w = "rej_Error" -> "Error"
      [] w = "rej_CANCELLED" -> "CANCELLED"
      [] w = "rej_undefined" -> "undefined"
      [] w = "rej_InvalidState" -> "InvalidState"
      [] OTHER -> "none"

\* The body ends (returns when e = "none", throws e otherwise) and play()
\* continues after its await.
bodyEnd(t, e) ==
    /\ bodyPc' = [bodyPc EXCEPT ![t] = IF e = "none" THEN "returned" ELSE "threw"]
    /\ bodyErr' = [bodyErr EXCEPT ![t] = e]
    /\ playEnd(t, e)
    /\ busy' = "none"
    /\ UNCHANGED <<state, cancelled, next, cancelListeners, wrapped, opSt, progressed,
                   alreadyStarted, schedVars, messages, startOrder, discarded>>
    /\ UNCHANGED lstVars

BodyReturn(t) ==
    /\ bodyPc[t] = "run"
    /\ bodyEnd(t, "none")

\* The body throws e: an Error, or the exported CANCELLED symbol.
BodyThrow(t, e) ==
    /\ bodyPc[t] = "run"
    /\ bodyEnd(t, e)

\* TaskImpl.checkCanceled called by the body, the exception left uncaught.
BodyCheckCanceled(t) ==
    /\ bodyPc[t] = "run"
    /\ IF cancelled[t]
       THEN bodyEnd(t, "CANCELLED")
       ELSE /\ busy' = "none"
            /\ UNCHANGED <<taskVars, schedVars, errors, messages, startOrder, discarded,
                           lstVars>>

\* The awaited wrapped promise has settled and the body resumes: it goes on
\* after a fulfilment; a rejection it lets propagate (caught = FALSE) or
\* catches and goes on (caught = TRUE).
BodyResume(t, caught) ==
    /\ bodyPc[t] = "wait"
    /\ wrapped[t] \notin {"none", "pending"}
    /\ IF wrapped[t] = "resolved" \/ caught
       THEN /\ bodyPc' = [bodyPc EXCEPT ![t] = "run"]
            /\ busy' = "none"
            /\ UNCHANGED <<state, cancelled, next, resolved, cancelListeners, wrapped,
                           opSt, bodyErr, playSt, progressed, alreadyStarted, schedVars,
                           errors, messages, startOrder, discarded, lstVars>>
       ELSE bodyEnd(t, rejection(wrapped[t]))

----------------------------------------------------------------------------

\* TaskImpl.oncancel(cb) called by the running body of t.  On a cancelled
\* task cb is called at once; an exception of cb leaves oncancel before the
\* handle is made, and the body lets it propagate.
BodyOncancel(t, cb) ==
    /\ bodyPc[t] = "run"
    /\ nhandles < MaxHandles
    /\ LET h == nhandles + 1
       IN  IF cancelled[t]
           THEN LET r == invokeListener(t, cb, FireState)
                IN  /\ cancelListeners' = r.ls
                    /\ htarget' = r.ht
                    /\ disposed' = r.dp
                    /\ fired' = r.fd
                    /\ wrapped' = r.w
                    /\ IF r.threw
                       THEN /\ bodyPc' = [bodyPc EXCEPT ![t] = "threw"]
                            /\ bodyErr' = [bodyErr EXCEPT ![t] = "Error"]
                            /\ playEnd(t, "Error")
                            /\ UNCHANGED <<nhandles, htask, hcb>>
                       ELSE /\ nhandles' = h
                            /\ htask' = [htask EXCEPT ![h] = t]
                            /\ hcb' = [hcb EXCEPT ![h] = cb]
                            /\ UNCHANGED <<bodyPc, bodyErr, playSt, errors, resolved>>
           ELSE /\ cancelListeners' = [cancelListeners EXCEPT ![t] = Append(@, cb)]
                /\ nhandles' = h
                /\ htask' = [htask EXCEPT ![h] = t]
                /\ hcb' = [hcb EXCEPT ![h] = cb]
                /\ htarget' = [htarget EXCEPT ![h] = cb]
                /\ UNCHANGED <<disposed, fired, wrapped, bodyPc, bodyErr, playSt, errors,
                               resolved>>
    /\ busy' = "none"
    /\ UNCHANGED <<state, cancelled, next, opSt, progressed, alreadyStarted, schedVars,
                   messages, startOrder, discarded, cbDoes, cancelThrew>>

\* OnCancel.dispose called on a handle by the code that holds it.
Dispose(h) ==
    /\ htask[h] # 0
    /\ LET r == dispose(h, FireState)
       IN  /\ cancelListeners' = r.ls
           /\ htarget' = r.ht
           /\ disposed' = r.dp
    /\ busy' = "none"
    /\ UNCHANGED <<state, cancelled, next, resolved, wrapped, opSt, bodyPc, bodyErr,
                   playSt, progressed, alreadyStarted, schedVars, errors, messages,
                   startOrder, discarded, nhandles, htask, hcb, cbDoes, fired,
                   cancelThrew>>

\* The lane with bodies that return, throw or call checkCanceled.
Next ==
    \/ Submit
    \/ schedulerCancel
    \/ throwIfBusy
    \/ \E t \in Tasks : Advance(t)
    \/ \E t \in Tasks : BodyReturn(t)
    \/ \E t \in Tasks, e \in {"Error", "CANCELLED"} : BodyThrow(t, e)
    \/ \E t \in Tasks : BodyCheckCanceled(t)

Spec == Init /\ [][Next]_vars

\* The lane with bodies that also wait on with(op), and with() calls made
\* outside a running body.
NextWith ==
    \/ SubmitW
    \/ schedulerCancel
    \/ throwIfBusy
    \/ \E t \in Tasks : Advance(t)
    \/ \E t \in Tasks : BodyWith(t)
    \/ \E t \in Tasks : LateWith(t)
    \/ \E t \in Tasks, ok \in BOOLEAN : OpSettle(t, ok)
    \/ \E t \in Tasks : BodyReturn(t)
    \/ \E t \in Tasks, e \in {"Error", "CANCELLED"} : BodyThrow(t, e)
    \/ \E t \in Tasks : BodyCheckCanceled(t)
    \/ \E t \in Tasks, caught \in BOOLEAN : BodyResume(t, caught)

SpecWith == Init /\ [][NextWith]_vars

SubmitListeners == task(MaxListenerTasks)

\* The lane with bodies that register functions with oncancel, dispose the
\* handles, and return or throw an Error.
NextListeners ==
    \/ SubmitListeners
    \/ schedulerCancel
    \/ \E t \in Tasks : Advance(t)
    \/ \E t \in Tasks, cb \in Callbacks : BodyOncancel(t, cb)
    \/ \E h \in Handles : Dispose(h)
    \/ \E t \in Tasks : BodyReturn(t)
    \/ \E t \in Tasks : BodyThrow(t, "Error")

SpecListeners == InitListeners /\ [][NextListeners]_vars

SubmitLive == task(MaxLiveTasks)

\* A body ends by returning or by throwing.
BodyEnds(t) ==
    \/ BodyReturn(t)
    \/ \E e \in {"Error", "CANCELLED"} : BodyThrow(t, e)

NextLive ==
    \/ SubmitLive
    \/ schedulerCancel
    \/ \E t \in Tasks : Advance(t)
    \/ \E t \in Tasks : BodyEnds(t)
    \/ \E t \in Tasks : BodyCheckCanceled(t)

\* The lane where every body eventually returns or throws, and the event
\* loop runs every queued .then callback.
SpecLive ==
    /\ Init
    /\ [][NextLive]_vars
    /\ \A t \in Tasks : WF_vars(BodyEnds(t))
    /\ \A t \in Tasks : WF_vars(Advance(t))

----------------------------------------------------------------------------
\* Properties

\* play() of t has begun the body and the body has not yet returned or thrown.
Running(t) == bodyPc[t] \in {"run", "wait"}

\* C1: single-flight -- at most one task of the lane is executing its body
\* at any time, also for tasks submitted after Scheduler.cancel.
C1_SingleFlight ==
    Cardinality({t \in Tasks : Running(t)}) <= 1

\* C2: FIFO start order -- the bodies that begin execution begin in the
\* order in which their tasks were submitted (task ids are submission order).
C2_FifoStartOrder ==
    \A i, j \in 1..Len(startOrder) : i < j => startOrder[i] < startOrder[j]

\* Three bodies have begun, with a Scheduler.cancel that discarded a pending
\* task in between.
C2_Witness ==
    /\ Len(startOrder) >= 3
    /\ \E d \in discarded : startOrder[1] < d /\ d < startOrder[Len(startOrder)]

\* C3: a task's body never begins until the completion signal
\* (TaskImpl.promise) of the task that began before it has settled.
C3_NextAfterSettled ==
    \A i \in 1..(Len(startOrder) - 1) : resolved[startOrder[i]]

\* C4: the completion signal resolves once the task has finished: when its
\* body returned normally, and when it was cancelled by Scheduler.cancel and
\* its body then ended with the CANCELLED signal.
C4_SignalResolves ==
    \A t \in Tasks :
        (\/ bodyPc[t] = "returned"
         \/ cancelled[t] /\ bodyPc[t] = "threw" /\ bodyErr[t] = "CANCELLED")
            => resolved[t]

C6_IdleOnlyAfterSettle ==
    \A t \in Tasks : (cancelled[t] /\ playSt[t] = "running") => currentTask # 0

\* C7: when cancellation fires while a with() wait is pending, the wrapped
\* promise rejects with the CANCELLED sentinel, and the later settlement of
\* the waited promise leaves the wrapped result as it is.
C7_WithRejectsCancelled ==
    [][\A t \in Tasks :
          /\ (wrapped[t] = "pending" /\ ~cancelled[t] /\ cancelled'[t])
                => wrapped'[t] = "rej_CANCELLED"
          /\ (cancelled[t] /\ opSt[t] = "pending" /\ opSt'[t] = "settled")
                => wrapped'[t] = wrapped[t]]_vars

\* C8: with() called on a task whose body is not executing (not yet started,
\* or already ended) rejects with the InvalidState error and registers no
\* cancellation listener.
C8_WithOutsideBody ==
    [][\A t \in Tasks :
          LateWith(t) => (wrapped'[t] = "rej_InvalidState"
                          /\ cancelListeners' = cancelListeners)]_vars

\* C9: a body that fails with a non-CANCELLED error is reported exactly once
\* on util.error, its completion signal is resolved and play() has settled,
\* and its progress() callback starts the head of the pending chain, or
\* leaves the lane idle when the chain is empty.
C9_ErrorReportedLaneAdvances ==
    /\ [](\A t \in Tasks :
            (bodyPc[t] = "threw" /\ bodyErr[t] # "CANCELLED")
                => (errors[t] = 1 /\ resolved[t] /\ playSt[t] = "resolved"))
    /\ [][\A t \in Tasks :
            (bodyPc[t] = "threw" /\ bodyErr[t] # "CANCELLED" /\ Advance(t))
                => IF nextTask = 0
                   THEN currentTask' = 0
                   ELSE /\ currentTask' = nextTask
                        /\ bodyPc[nextTask] = "none"
                        /\ bodyPc'[nextTask] = "run"]_vars

\* A body threw an Error, its progress() callback has run, and the task that
\* was pending behind it is now the running current task.
C9_Witness ==
    \E t \in Tasks :
        /\ bodyPc[t] = "threw" /\ bodyErr[t] = "Error" /\ progressed[t]
        /\ errors[t] = 1
        /\ currentTask = t + 1 /\ bodyPc[t + 1] = "run"

\* C10: throwIfBusy fails with Busy exactly when a task of the lane is
\* running, and in both cases leaves the tasks and the lane unchanged.
C10_BusyIffRunning ==
    /\ [](busy = "Busy" => \E t \in Tasks : Running(t))
    /\ [](busy = "ok" => ~ \E t \in Tasks : Running(t))
    /\ [][throwIfBusy => UNCHANGED <<taskVars, schedVars>>]_vars

\* Number of occurrences of x in the sequence q.
Count(q, x) == Cardinality({i \in 1..Len(q) : q[i] = x})

\* The handles of task t made for function cb on which dispose() was not called.
LiveHandles(t, cb) == {h \in Handles : htask[h] = t /\ hcb[h] = cb /\ ~ disposed[h]}

\* C11: a registration whose handle was disposed before cancellation is not
\* in the listener collection (each function is registered as often as it
\* has undisposed handles, so one dispose removes one registration and a
\* repeated dispose removes nothing), and when cancellation occurs no
\* function is invoked more often than it is registered.
C11_DisposedNeverFires ==
    /\ [](\A t \in 1..ntasks, cb \in Callbacks :
            ~ cancelled[t] =>
                Count(cancelListeners[t], cb) = Cardinality(LiveHandles(t, cb)))
    /\ [][\A t \in 1..ntasks, cb \in Callbacks :
            (~ cancelled[t] /\ cancelled'[t]) =>
                Count(fired'[t], cb) - Count(fired[t], cb)
                    <= Cardinality(LiveHandles(t, cb))]_vars
    /\ [][\A h \in Handles :
            (disposed[h] /\ cancelListeners' # cancelListeners) => ~ Dispose(h)]_vars

\* A task was cancelled and fired a listener, while the function of a handle
\* disposed before the cancellation was not invoked (all functions are
\* without side effects, so only a disposal before the cancellation can
\* have kept it from firing).
C11_Witness ==
    /\ \A cb \in Callbacks : cbDoes[cb].kind = "nothing"
    /\ \E t \in Tasks, h \in Handles :
          /\ cancelled[t] /\ htask[h] = t /\ disposed[h]
          /\ Count(fired[t], hcb[h]) = 0
          /\ fired[t] # <<>>

\* C12: when the promise given to with() settles on a running, not cancelled
\* task, the wrapped promise adopts the outcome and the reject listener is
\* removed; a settled wrapped result is never changed afterwards (a later
\* cancellation included), so only one of cancellation and the outcome
\* determines it.
C12_WithAdoptsOutcome ==
    /\ [][\A t \in 1..ntasks, ok \in BOOLEAN :
            (~ cancelled[t] /\ wrapped[t] = "pending" /\ opSt'[t] = "settled"
                /\ OpSettle(t, ok)) =>
                /\ wrapped'[t] = IF ok THEN "resolved" ELSE "rej_Error"
                /\ Count(cancelListeners'[t], "reject") = 0]_vars
    /\ [][\A t \in 1..ntasks :
            (wrapped[t] \in {"resolved", "rej_Error", "rej_undefined"}
                /\ wrapped'[t] # wrapped[t])
                => (BodyWith(t) \/ LateWith(t))]_vars
    /\ [](\A t \in 1..ntasks :
            /\ wrapped[t] \in {"resolved", "rej_Error"}
                  => Count(cancelListeners[t], "reject") = 0
            /\ wrapped[t] = "rej_undefined" => cancelled[t])

\* The promise given to with() was fulfilled first and the task was
\* cancelled afterwards (on a cancelled task the handlers of with() return
\* without settling the wrapped promise).
C12_Witness ==
    \E t \in Tasks :
        /\ wrapped[t] = "resolved" /\ opSt[t] = "settled"
        /\ cancelled[t]
        /\ cancelListeners[t] = <<>>

\* C13: Scheduler.cancel on an idle lane (currentTask = null) emits no
\* message and changes neither the lane nor any task.
C13_IdleCancelNoOp ==
    [][(schedulerCancel /\ currentTask = 0)
          => (messages' = <<>> /\ UNCHANGED <<taskVars, schedVars>>)]_vars

\* Scheduler.cancel was called on a lane that is idle while the body of a
\* task cancelled earlier is still executing.
C13_Witness ==
    /\ currentTask = 0
    /\ messages = <<>>
    /\ \E t \in Tasks : cancelled[t] /\ Running(t)

\* The listener at position i of task t's collection has no side effect, or
\* disposes a handle of t that is already disposed, its own, or that of a
\* listener at an earlier position.
HarmlessListener(t, i) ==
    LET l == cancelListeners[t][i]
    IN  \/ l = "reject"
        \/ cbDoes[l].kind = "nothing"
        \/ /\ cbDoes[l].kind = "dispose"
           /\ htask[cbDoes[l].h] = t
           /\ \/ htarget[cbDoes[l].h] = "undefined"
              \/ \E j \in 1..i : cancelListeners[t][j] = htarget[cbDoes[l].h]

IsCallback(l) == l \in Callbacks

\* C14: TaskImpl.cancel on a not yet cancelled task invokes every listener
\* registered at that moment once, in registration order, and leaves the
\* collection empty, also when listeners dispose their own handle or that
\* of a listener that has already fired.
C14_FireAllInOrder ==
    [][\A t \in Tasks :
          (/\ ~ cancelled[t] /\ cancelled'[t]
           /\ \A cb \in Callbacks : Count(cancelListeners[t], cb) <= 1
           /\ \A i \in 1..Len(cancelListeners[t]) : HarmlessListener(t, i))
              => (/\ fired'[t] = fired[t] \o SelectSeq(cancelListeners[t], IsCallback)
                  /\ cancelListeners'[t] = <<>>)]_vars

\* C15: Scheduler.cancel on a busy lane never ends with an exception of a
\* listener: it clears currentTask and the pending chain, and every listener
\* of the cancelled task was run and the collection emptied.
C15_ListenerThrowTolerated ==
    [][(schedulerCancel /\ currentTask # 0) =>
          (/\ ~ cancelThrew'
           /\ currentTask' = 0 /\ nextTask' = 0 /\ lastTask' = 0
           /\ cancelListeners'[currentTask] = <<>>)]_vars

\* C16: Scheduler.cancel on a busy lane emits one message for the running
\* task and one for every task of the pending chain, in chain order.
C16_AllPendingReported ==
    [][(schedulerCancel /\ currentTask # 0)
          => messages' = <<currentTask>> \o Chain(nextTask, next)]_vars

\* C17: a cancelled task whose body fails with the failure raised by
\* checkCanceled (CANCELLED) or with the rejection of a with() wait that the
\* cancellation rejected (undefined, from fireCancel) reports nothing on
\* util.error.
C17_CancelSilent ==
    \A t \in Tasks :
        (cancelled[t] /\ bodyPc[t] = "threw" /\ bodyErr[t] \in {"CANCELLED", "undefined"})
            => errors[t] = 0

\* C18: once a task's body has ended and its completion signal is resolved,
\* no later step sets its cancelled flag or invokes one of its listeners.
C18_NoCancelAfterFinish ==
    [][\A t \in Tasks :
          (resolved[t] /\ bodyPc[t] \in {"returned", "threw"})
              => (cancelled'[t] = cancelled[t] /\ fired'[t] = fired[t])]_vars

\* C19: play() is never called on a task twice -- 'play must call once' is
\* never raised and no task's body is invoked a second time.
C19_PlayOnce ==
    /\ ~ alreadyStarted
    /\ \A i, j \in 1..Len(startOrder) : startOrder[i] = startOrder[j] => i = j

\* The late progress() callback of a cancelled task has run after the chain
\* was refilled, and it started a task while another body was executing.
C19_Witness ==
    \E a, u, v \in Tasks :
        /\ cancelled[a] /\ progressed[a]
        /\ a < u /\ u < v /\ Running(u) /\ Running(v)

\* A play() is in flight whose completion will call progress().
ProgressPending == \E t \in Tasks : playSt[t] \in {"running", "resolved"} /\ ~ progressed[t]

LaneIdle == currentTask = 0 /\ nextTask = 0 /\ lastTask = 0

\* C20: no stranded work -- a non-empty pending chain always has a play()
\* in flight that will call progress(); every submitted task eventually
\* begins its body or is discarded by Scheduler.cancel; and the lane
\* eventually stays idle once submissions have stopped.
C20_NoStrandedWork ==
    /\ []((nextTask # 0 \/ currentTask # 0) => ProgressPending)
    /\ \A t \in Tasks : [](t <= ntasks => <>(bodyPc[t] # "none" \/ t \in discarded))
    /\ <>[]LaneIdle

\* All submissions were made, a pending task was discarded, and the lane is
\* idle with every started body ended and every progress() callback run.
C20_Witness ==
    /\ ntasks = MaxLiveTasks
    /\ LaneIdle
    /\ discarded # {}
    /\ Len(startOrder) >= 2
    /\ \A t \in Tasks : bodyPc[t] # "none" => progressed[t]

====
